---- MODULE Spec2Model ----
(***************************************************************************)
(* The champion record lifecycle of subleerunker-server.                   *)
(*                                                                         *)
(* The repository holds two builds of the same server over the same        *)
(* datastore schema: src/main.go (Cloud Datastore client) and              *)
(* src/subleerunker.go (App Engine datastore).  The variable impl says     *)
(* which build serves the requests of a behaviour; Spec is main.go,        *)
(* SpecGAE is subleerunker.go.                                             *)
(*                                                                         *)
(* Time is counted in ticks, TicksPerSecond of them in a clock second.     *)
(* Names are sequences of one-character strings, tokens are sequences      *)
(* (<<>> is the empty credential, <<seed>> the hex digest of seed).        *)
(***************************************************************************)
EXTENDS Integers, Sequences, FiniteSets, TLC

VARIABLES
    impl,           \* "main" (src/main.go) or "appengine" (src/subleerunker.go)
    now,            \* the wall clock, in ticks
    store,          \* the entities under the ancestor champions/_, in key order
    noChampionName, \* NoChampion.Name, the one field of the shared value ever assigned
    proc,           \* the request each handler goroutine is serving
    served          \* requests received so far

vars == <<impl, now, store, noChampionName, proc, served>>

(***************************************************************************)
(* Bounds of the model.                                                    *)
(***************************************************************************)
NumProcs == 2        \* concurrent handler goroutines
MaxRequests == 4     \* requests a behaviour receives
TicksPerSecond == 2  \* instants told apart within one clock second

(***************************************************************************)
(* Program constants.                                                      *)
(***************************************************************************)
TTLSeconds == 604800
TTL == TTLSeconds * TicksPerSecond
MaxAttempts == 3
QueryLimit == 10
MaxNameLen == 3
ZeroTime == -1

Procs == 1..NumProcs

StartTime == TicksPerSecond

\* The clock readings a behaviour samples: the start, and every instant of the
\* clock second in which a record made at tick 0 reaches its ExpiresAt.
Instants == {StartTime} \cup (TTL .. TTL + TicksPerSecond - 1)

Unix(t) == t \div TicksPerSecond

(***************************************************************************)
(* Champion and its methods.                                               *)
(***************************************************************************)
Champion(score, name, replay, duration, recordedAt, expiresIn, token) ==
    [Score |-> score, Name |-> name, Replay |-> replay, Duration |-> duration,
     RecordedAt |-> recordedAt, ExpiresIn |-> expiresIn, Token |-> token]

ExpiresAt(c) == c.RecordedAt + c.ExpiresIn

IsExpired(c, t) == t > ExpiresAt(c)

NoChampion == Champion(0, noChampionName, "", 0, ZeroTime, 0, <<>>)

\* md5 over the varint of seed, hex-encoded: one digest per seed.
IssueToken(seed) == <<seed>>

(***************************************************************************)
(* NormalizeName and SuggestName.                                          *)
(***************************************************************************)
LowerLetters ==
    <<"a","b","c","d","e","f","g","h","i","j","k","l","m",
      "n","o","p","q","r","s","t","u","v","w","x","y","z">>

UpperLetters ==
    <<"A","B","C","D","E","F","G","H","I","J","K","L","M",
      "N","O","P","Q","R","S","T","U","V","W","X","Y","Z">>

ToUpperChar(ch) ==
    IF \E i \in 1..Len(LowerLetters) : LowerLetters[i] = ch
    THEN UpperLetters[CHOOSE i \in 1..Len(LowerLetters) : LowerLetters[i] = ch]
    ELSE ch

ToUpper(s) == [i \in 1..Len(s) |-> ToUpperChar(s[i])]

IsAZ(ch) == \E i \in 1..Len(UpperLetters) : UpperLetters[i] = ch

\* strings.Join(p.FindAllString(name, -1), "") for p = [A-Z]+
JoinAZ(s) == SelectSeq(s, IsAZ)

\* A name kept at its full length.
Truncate_None(s) == s

Truncate(s) == IF Len(s) > MaxNameLen THEN SubSeq(s, 1, MaxNameLen) ELSE s

NormalizeName(name) == Truncate(JoinAZ(ToUpper(name)))

SuggestLetters ==
    <<"A","B","C","D","E","F","G","H","I","J","K","L","M",
      "N","O","P","Q","R","S","T","U","V","W","X","W","Z">>

SuggestName(r) ==
    LET letter == SuggestLetters[(r % Len(SuggestLetters)) + 1]
    IN  <<letter, letter, letter>>

(***************************************************************************)
(* The datastore: entities of a kind under the ancestor champions/_.       *)
(***************************************************************************)
Entity(kind, c) == [kind |-> kind, c |-> c]

QueryKind == "champion"

\* The kind of the incomplete key BeatChampion puts its record under.
PutKind(build) == IF build = "main" THEN "champions" ELSE "champion"

\* Keys of the entities the query of LoadChampion matches.
QueryMatches(s, t, ttl) ==
    {k \in DOMAIN s : s[k].kind = QueryKind /\ s[k].c.RecordedAt > t - ttl}

\* Order("-RecordedAt"): k comes before j (equal timestamps in key order).
Before(s, k, j) ==
    \/ s[k].c.RecordedAt > s[j].c.RecordedAt
    \/ s[k].c.RecordedAt = s[j].c.RecordedAt /\ k < j

\* Limit(10): the keys with fewer than QueryLimit matches before them.
QueryResult(s, t, ttl) ==
    LET m == QueryMatches(s, t, ttl)
    IN  {k \in m : Cardinality({j \in m : Before(s, j, k)}) < QueryLimit}

\* The iterator loop: the first result that is not expired at t, else NoChampion.
\* key = 0 stands for the nil key.
LoadChampion(s, t, ttl) ==
    LET res  == QueryResult(s, t, ttl)
        live == {k \in res : ~IsExpired(s[k].c, t)}
    IN  IF live = {}
        THEN [champion |-> NoChampion, key |-> 0]
        ELSE LET k == CHOOSE k \in live : \A j \in live \ {k} : Before(s, k, j)
             IN  [champion |-> s[k].c, key |-> k]

(***************************************************************************)
(* Requests.  A handler goroutine is "ready" (between requests, holding    *)
(* the last response), at "run" (about to run the transaction body) or at  *)
(* "commit" (the body returned nil and the transaction is to be            *)
(* committed).                                                             *)
(***************************************************************************)
BlankChampion == Champion(0, <<>>, "", 0, ZeroTime, 0, <<>>)

NoPut == [key |-> 0, e |-> Entity("", BlankChampion)]

Response(status, err, c, prevScore, token, authorized, key) ==
    [status |-> status, err |-> err, score |-> c.Score, name |-> c.Name,
     replay |-> c.Replay, expiresAt |-> ExpiresAt(c), prevScore |-> prevScore,
     token |-> token, authorized |-> authorized, key |-> key]

NoResponse == Response(0, "", BlankChampion, 0, <<>>, FALSE, 0)

\* http.Error(w, err.Error(), status)
HttpError(status, err, score, prevScore) ==
    [NoResponse EXCEPT !.status = status, !.err = err, !.score = score,
                       !.prevScore = prevScore]

\* WriteAuthorizedChampion
WriteAuthorizedChampion(c, key) == Response(200, "", c, 0, c.Token, FALSE, key)

Idle ==
    [pc |-> "ready", op |-> "none", t |-> 0, cand |-> BlankChampion,
     cred |-> <<>>, attempts |-> 0, dirty |-> FALSE, put |-> NoPut,
     seenLen |-> 0, with |-> {}, resp |-> NoResponse]

\* The handler returns: the goroutine keeps the response it wrote, and of the
\* request its credential, how much of the store its last query had before it
\* and which transactions its own overlapped.
Finish(me, resp) ==
    [Idle EXCEPT !.op = me.op, !.cred = me.cred, !.seenLen = me.seenLen,
                 !.with = me.with, !.resp = resp]

\* The PUT forms that carry a score: score and duration as the parsers see
\* them, the raw name and the replay.
Form(scoreOk, score, durOk, secs, rawName, replay) ==
    [scoreOk |-> scoreOk, score |-> score, durOk |-> durOk, secs |-> secs,
     rawName |-> rawName, replay |-> replay]

BeatForms ==
    {Form(TRUE, 100, TRUE, 12, <<"a","c","e">>, "r1"),
     Form(TRUE, 50, TRUE, 12, <<>>, ""),
     Form(FALSE, 0, TRUE, 12, <<>>, ""),
     Form(TRUE, 100, FALSE, 0, <<>>, "")}

\* The raw names of the PUT forms that carry no score.
RenameNames == {<<>>, <<"b","o","b","!">>}

\* Values of r.Int() in SuggestName.
RandInts == {24}

\* Credentials a caller presents: none, a digest no record carries, or the
\* token of a stored record.
BogusToken == <<ZeroTime>>

Credentials(s) == {<<>>, BogusToken} \cup {s[k].c.Token : k \in DOMAIN s}

\* An entity written by subleerunker.go (kind "champion", no Replay property).
LegacyRecord ==
    Entity("champion",
           Champion(60, <<"A","C","E">>, "", 12 * TicksPerSecond, 0, TTL,
                    IssueToken(Unix(0))))

Init ==
    /\ impl \in {"main", "appengine"}
    /\ now = StartTime
    /\ store \in {<<>>, <<LegacyRecord>>}
    /\ noChampionName = <<>>
    /\ proc = [p \in Procs |-> Idle]
    /\ served = 0

\* time.Now() moves on; a request is served within one clock second.
Tick ==
    /\ \E t \in Instants :
            /\ t > now
            /\ (t - now >= TicksPerSecond => \A p \in Procs : proc[p].pc = "ready")
            /\ now' = t
    /\ UNCHANGED <<impl, store, noChampionName, proc, served>>

\* A request arrives at a goroutine that is free.
Receive(p) ==
    /\ proc[p].pc = "ready"
    /\ served < MaxRequests
    /\ served' = served + 1

\* A token is accepted whenever it equals the champion's, the empty one too.
Authorized_AnyMatch(token, championToken) == token = championToken

\* token != "" && token == champion.Token
Authorized(token, championToken) == token # <<>> /\ token = championToken

\* GET /champion
GetChampion(p, cred, fails) ==
    /\ Receive(p)
    /\ LET c == LoadChampion(store, now, TTL).champion
           r == IF fails
                THEN HttpError(500, "Storage", 0, 0)
                ELSE Response(200, "", c, 0, <<>>, Authorized(cred, c.Token), 0)
       IN  proc' = [proc EXCEPT ![p] =
                Finish([Idle EXCEPT !.op = "get", !.cred = cred,
                                    !.seenLen = Len(store)], r)]
    /\ UNCHANGED <<impl, now, store, noChampionName>>

\* The name BeatChampion stores: main.go substitutes SuggestName for an empty
\* one, subleerunker.go stores it as it is.
BeatName(build, rawName, r) ==
    LET name == NormalizeName(rawName)
    IN  IF name = <<>> /\ build = "main" THEN SuggestName(r) ELSE name

\* PUT /champion with a score field: BeatChampion up to RunInTransaction.
BeatChampion(p, f, r) ==
    /\ Receive(p)
    /\ IF ~f.scoreOk \/ ~f.durOk
       THEN proc' = [proc EXCEPT ![p] =
                [Idle EXCEPT !.op = "beat",
                             !.resp = HttpError(400, "InvalidInput", 0, 0)]]
       ELSE LET token == IssueToken(Unix(now))
                c     == Champion(f.score, BeatName(impl, f.rawName, r),
                                  IF impl = "main" THEN f.replay ELSE "",
                                  f.secs * TicksPerSecond, now, TTL, token)
            IN  proc' = [proc EXCEPT ![p] =
                    [Idle EXCEPT !.pc = "run", !.op = "beat", !.t = now, !.cand = c]]
    /\ UNCHANGED <<impl, now, store, noChampionName>>

\* The name RenameChampion stores.
RenameName(rawName) == NormalizeName(rawName)

\* PUT /champion without a score field: RenameChampion up to RunInTransaction.
RenameChampion(p, rawName, cred) ==
    /\ Receive(p)
    /\ proc' = [proc EXCEPT ![p] =
            [Idle EXCEPT !.pc = "run", !.op = "rename", !.t = now, !.cred = cred,
                         !.cand = [BlankChampion EXCEPT !.Name = RenameName(rawName)]]]
    /\ UNCHANGED <<impl, now, store, noChampionName>>

\* The transactions open while p's is: their body has run, their commit has not.
OpenTx(p) == {q \in Procs \ {p} : proc[q].pc = "commit"}

\* p's body returned nil: its transaction is open, beside those already open.
Opened(p, rec) ==
    [q \in Procs |->
        IF q = p THEN [rec EXCEPT !.with = proc[p].with \cup OpenTx(p)]
        ELSE IF q \in OpenTx(p) THEN [proc[q] EXCEPT !.with = @ \cup {p}]
        ELSE proc[q]]

\* if score <= prevScore
NotHigher(score, prevScore) == score <= prevScore

\* One run of the function BeatChampion passes to RunInTransaction.
BeatBody(p) ==
    LET me        == [proc[p] EXCEPT !.attempts = @ + 1, !.seenLen = Len(store)]
        prev      == LoadChampion(store, me.t, TTL).champion
        prevScore == prev.Score
    IN  /\ proc[p].pc = "run" /\ proc[p].op = "beat"
        /\ IF NotHigher(me.cand.Score, prevScore)
           THEN proc' = [proc EXCEPT ![p] =
                    Finish(me, HttpError(500, "NotHigherScore",
                                         me.cand.Score, prevScore))]
           ELSE proc' = Opened(p,
                    [me EXCEPT !.pc = "commit", !.dirty = FALSE,
                               !.put = [key |-> 0,
                                        e |-> Entity(PutKind(impl), me.cand)]])
        /\ UNCHANGED <<impl, now, store, noChampionName, served>>

\* if champion.Token != token
TokenDenied(championToken, token) == championToken # token

\* A rename that also restamps the record, giving it another week.
Renamed_Restamped(c, name) == [c EXCEPT !.Name = name, !.RecordedAt = now]

\* champion.Name = name
Renamed(c, name) == [c EXCEPT !.Name = name]

\* One run of the function RenameChampion passes to RunInTransaction.
RenameBody(p) ==
    LET me == [proc[p] EXCEPT !.attempts = @ + 1, !.seenLen = Len(store)]
        lc == LoadChampion(store, me.t, TTL)
    IN  /\ proc[p].pc = "run" /\ proc[p].op = "rename"
        /\ IF TokenDenied(lc.champion.Token, me.cred)
           THEN /\ proc' = [proc EXCEPT ![p] =
                        Finish(me, HttpError(401, "NotAuthorized", 0, 0))]
                /\ UNCHANGED noChampionName
           ELSE IF lc.key = 0
           THEN \* champion is NoChampion itself: the assignment writes the shared
                \* value, and Put refuses the nil key.
                /\ noChampionName' = Renamed(lc.champion, me.cand.Name).Name
                /\ proc' = [proc EXCEPT ![p] =
                        Finish(me, HttpError(500, "InvalidKey", 0, 0))]
           ELSE /\ proc' = Opened(p,
                        [me EXCEPT !.pc = "commit", !.dirty = FALSE,
                                   !.put = [key |-> lc.key,
                                            e |-> Entity(store[lc.key].kind,
                                                         Renamed(lc.champion,
                                                                 me.cand.Name))]])
                /\ UNCHANGED noChampionName
        /\ UNCHANGED <<impl, now, store, served>>

\* The store after the mutation of a transaction: an incomplete key gets the
\* next id, a complete key overwrites its entity.
Apply(s, put) ==
    IF put.key = 0 THEN Append(s, put.e) ELSE [s EXCEPT ![put.key] = put.e]

PutKeyIn(s, put) == IF put.key = 0 THEN Len(s) + 1 ELSE put.key

\* Whether the commit of a transaction that another commit to the entity
\* group overtook is refused: the App Engine datastore refuses it; for the
\* Cloud Datastore client, whose transaction read nothing, either outcome.
MustConflict(build, dirty) == dirty /\ build = "appengine"

MayConflict(build, dirty) == dirty

\* Commit of the transaction: applied, and every other open transaction on
\* the entity group is overtaken.
Commit(p) ==
    LET me == proc[p]
    IN  /\ me.pc = "commit"
        /\ ~MustConflict(impl, me.dirty)
        /\ store' = Apply(store, me.put)
        /\ proc' = [q \in Procs |->
                IF q = p
                THEN Finish(me, WriteAuthorizedChampion(me.put.e.c,
                                                        PutKeyIn(store, me.put)))
                ELSE IF proc[q].pc = "commit" THEN [proc[q] EXCEPT !.dirty = TRUE]
                ELSE proc[q]]
        /\ UNCHANGED <<impl, now, noChampionName, served>>

\* A retry that keeps the write of the attempt it abandons.
Conflict_KeepsWrite(p) ==
    LET me == proc[p]
    IN  /\ me.pc = "commit"
        /\ MayConflict(impl, me.dirty)
        /\ store' = Apply(store, me.put)
        /\ proc' = [proc EXCEPT ![p] =
                [me EXCEPT !.pc = "run", !.put = NoPut, !.dirty = FALSE]]
        /\ UNCHANGED <<impl, now, noChampionName, served>>

\* A commit refused for contention is reported at once, without a retry.
Conflict_GivesUp(p) ==
    LET me == proc[p]
    IN  /\ me.pc = "commit"
        /\ MayConflict(impl, me.dirty)
        /\ proc' = [proc EXCEPT ![p] =
                Finish(me, HttpError(500, "Concurrent", 0, 0))]
        /\ UNCHANGED <<impl, now, store, noChampionName, served>>

\* Commit refused for contention: RunInTransaction runs the body again, and
\* gives up after MaxAttempts attempts.
Conflict(p) ==
    LET me == proc[p]
    IN  /\ me.pc = "commit"
        /\ MayConflict(impl, me.dirty)
        /\ IF me.attempts < MaxAttempts
           THEN proc' = [proc EXCEPT ![p] =
                    [me EXCEPT !.pc = "run", !.put = NoPut, !.dirty = FALSE]]
           ELSE proc' = [proc EXCEPT ![p] =
                    Finish(me, HttpError(500, "Concurrent", 0, 0))]
        /\ UNCHANGED <<impl, now, store, noChampionName, served>>

\* The query or the commit fails in the store: the error goes out as a 500.
StorageFailure(p) ==
    LET me == proc[p]
    IN  /\ me.pc \in {"run", "commit"}
        /\ proc' = [proc EXCEPT ![p] = Finish(me, HttpError(500, "Storage", 0, 0))]
        /\ UNCHANGED <<impl, now, store, noChampionName, served>>

Next ==
    \/ Tick
    \/ \E p \in Procs, cred \in Credentials(store), fails \in BOOLEAN :
            GetChampion(p, cred, fails)
    \/ \E p \in Procs, f \in BeatForms, r \in RandInts : BeatChampion(p, f, r)
    \/ \E p \in Procs, rn \in RenameNames, cred \in Credentials(store) :
            RenameChampion(p, rn, cred)
    \/ \E p \in Procs : BeatBody(p)
    \/ \E p \in Procs : RenameBody(p)
    \/ \E p \in Procs : Commit(p)
    \/ \E p \in Procs : Conflict(p)
    \/ \E p \in Procs : StorageFailure(p)

InitMain == Init /\ impl = "main"

InitGAE == Init /\ impl = "appengine"

\* The server of src/main.go.
Spec == InitMain /\ [][Next]_vars

\* The server of src/subleerunker.go.
SpecGAE == InitGAE /\ [][Next]_vars

(***************************************************************************)
(* What the specification calls the current champion: the newest stored    *)
(* record that is live, a record being live at t iff t <= expiresAt.       *)
(***************************************************************************)
Live(c, t) == t <= ExpiresAt(c)

LiveKeys(s, t) == {k \in DOMAIN s : Live(s[k].c, t)}

Newest(s, keys) ==
    CHOOSE k \in keys : \A j \in keys :
        \/ s[k].c.RecordedAt > s[j].c.RecordedAt
        \/ s[k].c.RecordedAt = s[j].c.RecordedAt /\ k >= j

LiveChampionScore(s, t) ==
    IF LiveKeys(s, t) = {} THEN 0 ELSE s[Newest(s, LiveKeys(s, t))].c.Score

\* p has answered a beat with a success or a NotHigherScore rejection.
BeatAnswered(p) ==
    /\ proc[p].pc = "ready" /\ proc[p].op = "beat"
    /\ proc[p].resp.status = 200 \/ proc[p].resp.err = "NotHigherScore"

\* The step in which p's transaction commits.
Commits(p, op) ==
    /\ proc[p].pc = "commit" /\ proc[p].op = op
    /\ proc'[p].pc = "ready" /\ proc'[p].resp.status = 200

(***************************************************************************)
(* C1. Two beats with scores s1 < s2 whose transactions overlapped have    *)
(* both been answered, no stored record scores above s2 and none has       *)
(* expired: the champion LoadChampion resolves has score s2.               *)
(***************************************************************************)
C1_HighestScoreWins ==
    \A p \in Procs, q \in Procs :
        ( /\ p # q /\ BeatAnswered(p) /\ BeatAnswered(q)
          /\ q \in proc[p].with
          /\ proc[p].resp.score < proc[q].resp.score
          /\ \A k \in DOMAIN store :
                /\ store[k].c.Score <= proc[q].resp.score
                /\ Live(store[k].c, now) )
        => LoadChampion(store, now, TTL).champion.Score = proc[q].resp.score

(***************************************************************************)
(* C2. Every commit of a beat adds a record whose score is strictly        *)
(* greater than the score of the champion live at that moment (0 if none). *)
(***************************************************************************)
C2_OnlyHigherScorePersisted ==
    [][\A p \in Procs :
            Commits(p, "beat")
            => /\ Len(store') = Len(store) + 1
               /\ store'[Len(store')].c.Score > LiveChampionScore(store, now)]_vars

(***************************************************************************)
(* C3. Of two answered beats whose transactions overlapped, one ran its    *)
(* check on a store that held the other's committed record, and a beat     *)
(* that checked on a store holding a live record of a higher score was     *)
(* rejected with NotHigherScore citing that score.                         *)
(***************************************************************************)
C3_BeatsSerializeOnCheck ==
    \A p \in Procs, q \in Procs :
        ( /\ p # q /\ BeatAnswered(p) /\ BeatAnswered(q)
          /\ q \in proc[p].with
          /\ proc[p].resp.score < proc[q].resp.score
          /\ proc[q].resp.status = 200
          /\ Live(store[proc[q].resp.key].c, now) )
        => /\ proc[p].resp.status = 200
                => \/ proc[p].resp.key <= proc[q].seenLen
                   \/ proc[q].resp.key <= proc[p].seenLen
           /\ proc[q].resp.key <= proc[p].seenLen
                => /\ proc[p].resp.err = "NotHigherScore"
                   /\ proc[p].resp.prevScore = proc[q].resp.score

\* The step in which the body of p's rename transaction runs to its return.
RenameDecides(p) ==
    /\ proc[p].pc = "run" /\ proc[p].op = "rename"
    /\ proc'[p].pc # "run" /\ proc'[p].resp.err # "Storage"

(***************************************************************************)
(* C4. A rename goes on to commit only with the token of the champion its  *)
(* query resolves; with any other token, or with any credential when the   *)
(* query resolves no champion, it is answered 401 NotAuthorized and        *)
(* nothing changes.                                                        *)
(***************************************************************************)
C4_RenameDeniedAs401 ==
    [][\A p \in Procs :
            RenameDecides(p)
            => LET lc == LoadChampion(store, proc[p].t, TTL)
               IN  IF lc.key # 0 /\ lc.champion.Token = proc[p].cred
                   THEN proc'[p].pc = "commit"
                   ELSE /\ proc'[p].pc = "ready"
                        /\ proc'[p].resp.status = 401
                        /\ proc'[p].resp.err = "NotAuthorized"
                        /\ store' = store
                        /\ noChampionName' = noChampionName]_vars

(***************************************************************************)
(* C5. A rename that commits leaves the store as it was but for the name   *)
(* of the one record it renames: same keys, same kind, score, replay,      *)
(* duration, recordedAt, ttl and token, and the response shows them.       *)
(***************************************************************************)
C5_RenameChangesNameOnly ==
    [][\A p \in Procs :
            Commits(p, "rename")
            => LET r == proc'[p].resp
               IN  /\ r.key \in DOMAIN store
                   /\ DOMAIN store' = DOMAIN store
                   /\ \A k \in DOMAIN store :
                        store'[k] = IF k = r.key
                                    THEN [store[k] EXCEPT !.c.Name = r.name]
                                    ELSE store[k]
                   /\ r.score = store[r.key].c.Score
                   /\ r.replay = store[r.key].c.Replay
                   /\ r.token = store[r.key].c.Token
                   /\ r.expiresAt = ExpiresAt(store[r.key].c)]_vars

\* A rename has committed and the record carries the new name.
C5_Witness ==
    \E p \in Procs :
        /\ proc[p].pc = "ready" /\ proc[p].op = "rename"
        /\ proc[p].resp.status = 200
        /\ proc[p].resp.name = <<"B","O","B">>
        /\ store[proc[p].resp.key].c.Name = <<"B","O","B">>
        /\ store[proc[p].resp.key].c.Score = 60

(***************************************************************************)
(* C6. Stored records made at different instants carry different tokens.   *)
(***************************************************************************)
C6_DistinctRecordsDistinctTokens ==
    \A j \in DOMAIN store, k \in DOMAIN store :
        store[j].c.RecordedAt # store[k].c.RecordedAt
        => store[j].c.Token # store[k].c.Token

\* The step in which p serves a GET from the store (one that leaves p holding
\* another response than before, which tells p from the other goroutines).
Gets(p) ==
    /\ proc[p].pc = "ready" /\ served' = served + 1
    /\ proc'[p] # proc[p]
    /\ proc'[p].op = "get" /\ proc'[p].resp.status = 200

\* The keys of the records the server's query reads.
Readable(s) == {k \in DOMAIN s : s[k].kind = QueryKind}

(***************************************************************************)
(* C7. A GET at time t reports the newest record the server reads when     *)
(* t <= recordedAt + ttl for it, t = recordedAt + ttl included, and score  *)
(* 0 when t is past recordedAt + ttl of all of them.                       *)
(***************************************************************************)
C7_LiveThroughExpiresAt ==
    [][\A p \in Procs :
            Gets(p)
            => LET keys == Readable(store)
                   r    == proc'[p].resp
               IN  IF keys # {} /\ Live(store[Newest(store, keys)].c, now)
                   THEN /\ r.score = store[Newest(store, keys)].c.Score
                        /\ r.expiresAt = ExpiresAt(store[Newest(store, keys)].c)
                   ELSE (\A k \in keys : ~Live(store[k].c, now)) => r.score = 0]_vars

(***************************************************************************)
(* C8. A beat answered with success whose record is the only stored one    *)
(* not past its expiresAt is resolved as the champion, whatever the scores *)
(* of the expired records.                                                 *)
(***************************************************************************)
C8_BeatAfterExpiryBecomesChampion ==
    \A p \in Procs :
        ( /\ proc[p].pc = "ready" /\ proc[p].op = "beat"
          /\ proc[p].resp.status = 200
          /\ Live(store[proc[p].resp.key].c, now)
          /\ \A k \in DOMAIN store \ {proc[p].resp.key} : ~Live(store[k].c, now)
          /\ \E k \in DOMAIN store : store[k].c.Score > proc[p].resp.score )
        => LET lc == LoadChampion(store, now, TTL)
           IN  lc.key = proc[p].resp.key /\ lc.champion.Score = proc[p].resp.score

(***************************************************************************)
(* C9. After beat(100, "ace", "r1") succeeded on a store with no record,   *)
(* returning 100, "ACE", "r1" and a token T, and while that record is      *)
(* live: a beat(50) that runs next is rejected with NotHigherScore citing  *)
(* 100, a GET with T reports 100 and authorized, a GET without credential  *)
(* reports 100 and not authorized.                                         *)
(***************************************************************************)
C9_EndToEnd ==
    \A p \in Procs, q \in Procs :
        ( /\ p # q
          /\ proc[p].pc = "ready" /\ proc[p].op = "beat"
          /\ proc[p].resp.status = 200 /\ proc[p].resp.key = 1
          /\ proc[p].resp.score = 100
          /\ proc[q].pc = "ready" /\ proc[q].seenLen >= 1
          /\ Len(store) <= 2 /\ store[1].c.Name = proc[p].resp.name
          /\ Live(store[1].c, now) )
        => /\ proc[p].resp.name = <<"A","C","E">>
           /\ proc[p].resp.replay = "r1"
           /\ proc[p].resp.token # <<>>
           /\ (proc[q].op = "beat" /\ proc[q].resp.score = 50 /\ BeatAnswered(q))
                => /\ proc[q].resp.err = "NotHigherScore"
                   /\ proc[q].resp.prevScore = 100
           /\ (proc[q].op = "get" /\ proc[q].resp.status = 200 /\ Len(store) = 1)
                => /\ proc[q].resp.score = 100
                   /\ proc[q].resp.authorized = (proc[q].cred = proc[p].resp.token)

(***************************************************************************)
(* C10. No stored record has an empty name.                                *)
(***************************************************************************)
C10_StoredNamesNonEmpty ==
    \A k \in DOMAIN store : store[k].c.Name # <<>>

\* The step in which p answers a beat or a rename with an error.
RequestFails(p) ==
    /\ proc'[p] # proc[p]
    /\ proc'[p].pc = "ready" /\ proc'[p].op \in {"beat", "rename"}
    /\ proc'[p].resp.status \notin {0, 200}

(***************************************************************************)
(* C11. A beat or rename answered with an error (NotHigherScore,           *)
(* NotAuthorized, malformed input, a failure of the store) leaves the      *)
(* stored records as they were, and with them the champion that is         *)
(* resolved.                                                               *)
(***************************************************************************)
C11_FailedRequestChangesNothing ==
    [][\A p \in Procs :
            RequestFails(p)
            => /\ store' = store
               /\ LoadChampion(store, now, TTL)' = LoadChampion(store, now, TTL)]_vars

\* No write has committed and the clock has not moved since the start.
Untouched == store \in {<<>>, <<LegacyRecord>>} /\ now = StartTime

\* What a GET shows of the champion.
Shown(r) == <<r.score, r.name, r.replay, r.expiresAt, r.authorized>>

(***************************************************************************)
(* C12. A GET changes no stored record, nor NoChampion; and two GETs with   *)
(* the same credential, made at the same time with no write committed in   *)
(* between, show the same score, name, replay, expiresAt and authorized.   *)
(***************************************************************************)
C12_GetReadOnlyIdempotent ==
    /\ [][\A p \in Procs :
            Gets(p)
            => store' = store /\ noChampionName' = noChampionName]_vars
    /\ [](\A p \in Procs, q \in Procs :
            ( /\ Untouched
              /\ proc[p].pc = "ready" /\ proc[p].op = "get"
              /\ proc[q].pc = "ready" /\ proc[q].op = "get"
              /\ proc[p].resp.status = 200 /\ proc[q].resp.status = 200
              /\ proc[p].cred = proc[q].cred )
            => Shown(proc[p].resp) = Shown(proc[q].resp))

(***************************************************************************)
(* C13. A GET reports authorized exactly when the caller's token is not    *)
(* empty and is the token of the champion resolved; when no stored record  *)
(* is live it reports not authorized for every credential.                 *)
(***************************************************************************)
C13_AuthorizedIffTokenMatches ==
    [][\A p \in Procs :
            Gets(p)
            => LET lc   == LoadChampion(store, now, TTL)
                   cred == proc'[p].cred
               IN  /\ proc'[p].resp.authorized
                        = (cred # <<>> /\ lc.key # 0 /\ cred = lc.champion.Token)
                   /\ (\A k \in DOMAIN store : ~Live(store[k].c, now))
                        => ~proc'[p].resp.authorized]_vars

\* One GET was authorized with the token of the live record; another, with the
\* token of a record that has expired, was not.
C13_Witness ==
    \E p \in Procs, q \in Procs :
        /\ proc[p].pc = "ready" /\ proc[p].op = "get" /\ proc[p].resp.status = 200
        /\ proc[p].resp.authorized /\ proc[p].resp.score = 60
        /\ proc[q].pc = "ready" /\ proc[q].op = "get" /\ proc[q].resp.status = 200
        /\ proc[q].cred = LegacyRecord.c.Token /\ proc[q].seenLen >= 1
        /\ ~proc[q].resp.authorized /\ proc[q].resp.score = 0

(***************************************************************************)
(* C14. Whenever LoadChampion resolves no record, what it returns has      *)
(* score 0, the empty name, the empty token and the zero timestamp: the    *)
(* shared NoChampion is as it was declared.                                *)
(***************************************************************************)
C14_NoChampionNeverModified ==
    LET lc == LoadChampion(store, now, TTL)
    IN  lc.key = 0
        => /\ lc.champion.Score = 0 /\ lc.champion.Name = <<>>
           /\ lc.champion.Token = <<>> /\ lc.champion.RecordedAt = ZeroTime
           /\ lc.champion.ExpiresIn = 0

(***************************************************************************)
(* C15. The champion LoadChampion resolves has the highest score among the *)
(* stored records that are live: no live record scores above it.           *)
(***************************************************************************)
C15_ResolvedIsHighestLive ==
    \A k \in DOMAIN store :
        Live(store[k].c, now)
        => store[k].c.Score <= LoadChampion(store, now, TTL).champion.Score

\* The score a GET would report now.
ReportedScore == LoadChampion(store, now, TTL).champion.Score

(***************************************************************************)
(* C16. From one state to the next, unless the resolved champion has       *)
(* passed its expiresAt, the score reported as the current champion does   *)
(* not decrease, and it increases only in the commit of a beat.            *)
(***************************************************************************)
C16_ScoreMonotonic ==
    [][LET lc == LoadChampion(store, now, TTL)
       IN  (lc.key # 0 => ~IsExpired(lc.champion, now'))
           => /\ ReportedScore' >= ReportedScore
              /\ ReportedScore' > ReportedScore
                    => \E p \in Procs : Commits(p, "beat")]_vars

(***************************************************************************)
(* C17. The store changes only in the step that commits a request's        *)
(* transaction and ends the request with a success: a beat adds exactly    *)
(* one record, a rename rewrites exactly one existing record; so a         *)
(* request writes at most once, however often its body was run.            *)
(***************************************************************************)
C17_AtMostOneWrite ==
    [][store' # store
        => \E p \in Procs :
            /\ Commits(p, proc[p].op)
            /\ IF proc[p].op = "beat"
               THEN /\ Len(store') = Len(store) + 1
                    /\ SubSeq(store', 1, Len(store)) = store
               ELSE /\ proc[p].op = "rename"
                    /\ DOMAIN store' = DOMAIN store
                    /\ Cardinality({k \in DOMAIN store : store'[k] # store[k]}) = 1]_vars

\* A beat whose transaction overlapped another's ran its body again after the
\* other's commit, and then committed: both hold their one record.
C17_Witness ==
    \E p \in Procs, q \in Procs :
        /\ p # q /\ BeatAnswered(p) /\ BeatAnswered(q)
        /\ proc[p].resp.status = 200 /\ proc[q].resp.status = 200
        /\ q \in proc[p].with
        /\ proc[q].resp.key = 1 /\ proc[p].seenLen = 1 /\ proc[p].resp.key = 2
        /\ Len(store) = 2

(***************************************************************************)
(* LoadChampion over long histories: the store holds the records of up to  *)
(* MaxHistory successive beats, record i made at tick i with score i, and  *)
(* GETs query it at an instant before any of them expires and at the       *)
(* instants around the ExpiresAt of each.                                  *)
(***************************************************************************)
MaxHistory == 12

HistoryRecord(i) ==
    Entity(QueryKind,
           Champion(i, <<"A","C","E">>, "", 12 * TicksPerSecond, i, TTL,
                    IssueToken(Unix(i))))

History(n) == [i \in 1..n |-> HistoryRecord(i)]

QueryTimes == {MaxHistory + 1} \cup {TTL + j : j \in 0..(MaxHistory + 1)}

InitQuery ==
    /\ impl \in {"main", "appengine"}
    /\ now \in QueryTimes
    /\ store \in {History(n) : n \in 0..MaxHistory}
    /\ noChampionName = <<>>
    /\ proc = [p \in Procs |-> Idle]
    /\ served = 0

NextQuery == \E p \in Procs, fails \in BOOLEAN : GetChampion(p, <<>>, fails)

SpecQuery == InitQuery /\ [][NextQuery]_vars

\* A scan of the whole history of the kind queried, newest first, for the
\* first record that is not expired at t.
FullScan(s, t) ==
    LET live == {k \in DOMAIN s : s[k].kind = QueryKind /\ ~IsExpired(s[k].c, t)}
    IN  IF live = {}
        THEN [champion |-> NoChampion, key |-> 0]
        ELSE LET k == CHOOSE k \in live : \A j \in live \ {k} : Before(s, k, j)
             IN  [champion |-> s[k].c, key |-> k]

(***************************************************************************)
(* C18. For every store and query time, LoadChampion, with its filter on   *)
(* RecordedAt and its limit of 10, returns what the scan of the whole      *)
(* history returns.                                                        *)
(***************************************************************************)
C18_BoundedQueryLosesNothing ==
    LoadChampion(store, now, TTL) = FullScan(store, now)

(***************************************************************************)
(* Names: goroutine 1 serves beats and renames whose raw names range over  *)
(* RawNames, the placeholder drawing from NameRandInts.                    *)
(***************************************************************************)
MaxRawLen == 4

NameAlphabet == {"a", "1"}

RawNames ==
    {<<"h","e","l","l","o","1","2","3","!","!">>, <<"1","2","3">>,
     <<"a","1","b","2","c","3">>, <<"1","H","i","!">>, <<"Z","z">>}
    \cup UNION {[1..n -> NameAlphabet] : n \in 0..MaxRawLen}

\* Values of r.Int(): the first and last letters, the one past the last, and
\* the position of the letter that stands in for Y.
NameRandInts == {0, 24, 25, 26}

NameForm(rawName) == Form(TRUE, 100, TRUE, 12, rawName, "r1")

NameRequests == 3    \* requests a behaviour of SpecNames receives

NextNames ==
    \/ /\ served < NameRequests
       /\ \E rn \in RawNames, r \in NameRandInts : BeatChampion(1, NameForm(rn), r)
    \/ /\ served < NameRequests
       /\ \E rn \in RawNames, cred \in Credentials(store) : RenameChampion(1, rn, cred)
    \/ BeatBody(1)
    \/ RenameBody(1)
    \/ Commit(1)

SpecNames == InitMain /\ [][NextNames]_vars

AZ ==
    {"A","B","C","D","E","F","G","H","I","J","K","L","M",
     "N","O","P","Q","R","S","T","U","V","W","X","Y","Z"}

IsLetter(ch) ==
    \E i \in 1..Len(LowerLetters) : ch = LowerLetters[i] \/ ch = UpperLetters[i]

\* The letters of a raw name, of which the first three are kept, in upper case.
FirstThreeLetters(raw) ==
    LET letters == SelectSeq(raw, IsLetter)
        kept    == IF Len(letters) > 3 THEN SubSeq(letters, 1, 3) ELSE letters
    IN  [i \in 1..Len(kept) |-> ToUpperChar(kept[i])]

(***************************************************************************)
(* C19. Every stored name has at most 3 characters, all of them in A-Z;    *)
(* NormalizeName gives the first three letters of the raw name in upper    *)
(* case ("hello123!!" gives "HEL"); the placeholder is one letter of A-Z   *)
(* three times.                                                            *)
(***************************************************************************)
C19_NamesAreUpToThreeAZ ==
    /\ \A k \in DOMAIN store :
            /\ Len(store[k].c.Name) <= 3
            /\ \A i \in 1..Len(store[k].c.Name) : store[k].c.Name[i] \in AZ
    /\ \A p \in Procs :
            /\ Len(proc[p].cand.Name) <= 3
            /\ \A i \in 1..Len(proc[p].cand.Name) : proc[p].cand.Name[i] \in AZ
    /\ NormalizeName(<<"h","e","l","l","o","1","2","3","!","!">>) = <<"H","E","L">>
    /\ \A rn \in RawNames : NormalizeName(rn) = FirstThreeLetters(rn)
    /\ \A r \in NameRandInts :
            /\ Len(SuggestName(r)) = 3
            /\ SuggestName(r)[1] \in AZ
            /\ SuggestName(r)[2] = SuggestName(r)[1]
            /\ SuggestName(r)[3] = SuggestName(r)[1]

\* "hello123!!" was stored as HEL by a beat, an empty name as a placeholder,
\* and the inherited record was renamed from a raw name with digits in it.
C19_Witness ==
    /\ \E k \in DOMAIN store :
            store[k].kind = "champions" /\ store[k].c.Name = <<"H","E","L">>
    /\ \E k \in DOMAIN store :
            store[k].kind = "champions" /\ store[k].c.Name = <<"W","W","W">>
    /\ \E k \in DOMAIN store :
            store[k].kind = "champion" /\ store[k].c.Name = <<"A","B","C">>

(***************************************************************************)
(* Progress: every goroutine that is serving a request gets to run its     *)
(* transaction body, and the store answers every commit, by applying it or *)
(* by refusing it.                                                         *)
(***************************************************************************)
Fairness ==
    \A p \in Procs :
        /\ WF_vars(BeatBody(p))
        /\ WF_vars(RenameBody(p))
        /\ WF_vars(Commit(p) \/ Conflict(p))

\* The beats and renames of the Cloud Datastore build, served at one instant.
NextLive ==
    \/ \E p \in Procs, f \in BeatForms, r \in RandInts : BeatChampion(p, f, r)
    \/ \E p \in Procs, rn \in RenameNames, cred \in Credentials(store) :
            RenameChampion(p, rn, cred)
    \/ \E p \in Procs : BeatBody(p)
    \/ \E p \in Procs : RenameBody(p)
    \/ \E p \in Procs : Commit(p)
    \/ \E p \in Procs : Conflict(p)
    \/ \E p \in Procs : StorageFailure(p)

SpecLive == InitMain /\ [][NextLive]_vars /\ Fairness

\* The outcomes of a beat or a rename.
Outcome(r) ==
    \/ r.status = 200 /\ r.err = ""
    \/ r.status = 400 /\ r.err = "InvalidInput"
    \/ r.status = 401 /\ r.err = "NotAuthorized"
    \/ r.status = 500 /\ r.err \in {"NotHigherScore", "Storage", "Concurrent", "InvalidKey"}

====
